---------------------------- MODULE Spec2Model ----------------------------
(***************************************************************************)
(* A model of netflix_visualization.py: the Loader (read_csv), the Sampler *)
(* (sample + to_csv), the Cleaner (strip, to_datetime, duration split,     *)
(* primary country, main genre) and the part of the Chart builder that     *)
(* computes on rows (release_year filter, rating groups).                  *)
(*                                                                         *)
(* Text is modelled character by character: a Python str is a sequence of  *)
(* one-character strings.  A table cell is a record tagged with its kind:  *)
(* NaN (pandas' missing value), Str, Num (a decimal number) or Datetime.   *)
(***************************************************************************)
EXTENDS Integers, Sequences, FiniteSets, TLC

VARIABLES
    pc,            \* position of the script (or of a function called on its own)
    input_file,    \* data/netflix_titles.csv on disk
    subset_file,   \* data/netflix_titles_subset_3000.csv on disk
    heap,          \* DataFrame objects, by object id
    df_full,       \* the script's names: each is an object id, or "unbound"
    df_subset,
    df,
    locs,          \* the row positions sample() drew
    global_rng,    \* numpy's ambient (global) random state of this process
    err,           \* the exception that ended the run, or "none"
    trace,         \* the stages completed in this run, in order
    closing,       \* the closing message was printed
    run,           \* number of this run of the script
    prev,          \* what the previous run read and wrote
    charts,        \* rows of df_genre, with rating_group
    fn,            \* the function called on its own, or "none"
    fn_in,         \* its input
    fn_out         \* its output

vars == <<pc, input_file, subset_file, heap, df_full, df_subset, df, locs,
          global_rng, err, trace, closing, run, prev, charts, fn, fn_in, fn_out>>

pipeVars == <<input_file, subset_file, heap, df_full, df_subset, df, locs,
              global_rng, err, trace, closing, run, prev, charts>>

fnVars == <<fn, fn_in, fn_out>>

---------------------------------------------------------------------------
(* Cell values *)

NaN == [k |-> "NaN"]

Str(s) == [k |-> "str", s |-> s]

\* The decimal number m * 10^(-e), with no trailing zero in its fraction.
RECURSIVE Num(_, _)
Num(m, e) ==
    IF e > 0 /\ m % 10 = 0 THEN Num(m \div 10, e - 1)
    ELSE [k |-> "num", m |-> m, e |-> e]

Datetime(y, mo, d) == [k |-> "datetime", y |-> y, mo |-> mo, d |-> d]

isna(x) == x = NaN

IsStr(x) == x.k = "str"

---------------------------------------------------------------------------
(* Python str methods *)

Whitespace == {" ", "\t"}

RECURSIVE LStrip(_)
LStrip(s) ==
    IF s # <<>> /\ Head(s) \in Whitespace THEN LStrip(Tail(s)) ELSE s

RECURSIVE RStrip(_)
RStrip(s) ==
    IF s # <<>> /\ s[Len(s)] \in Whitespace
    THEN RStrip(SubSeq(s, 1, Len(s) - 1))
    ELSE s

\* str.strip()
strip(s) == RStrip(LStrip(s))

\* Position of the first occurrence of character c in s, or 0.
RECURSIVE FindFrom(_, _, _)
FindFrom(s, c, i) ==
    IF i > Len(s) THEN 0
    ELSE IF s[i] = c THEN i
    ELSE FindFrom(s, c, i + 1)

find(s, c) == FindFrom(s, c, 1)

\* s.split(c, 1): at most two parts, cut at the first c.
split1(s, c) ==
    LET i == find(s, c) IN
    IF i = 0 THEN <<s>>
    ELSE <<SubSeq(s, 1, i - 1), SubSeq(s, i + 1, Len(s))>>

\* s.split(c)[0]
split_first(s, c) == split1(s, c)[1]

---------------------------------------------------------------------------
(* Numbers *)

DigitVal ==
    [c \in {"0", "1", "2", "3", "4", "5", "6", "7", "8", "9"} |->
        CASE c = "0" -> 0 [] c = "1" -> 1 [] c = "2" -> 2 [] c = "3" -> 3
          [] c = "4" -> 4 [] c = "5" -> 5 [] c = "6" -> 6 [] c = "7" -> 7
          [] c = "8" -> 8 [] c = "9" -> 9]

IsDigits(s) == \A i \in 1..Len(s) : s[i] \in DOMAIN DigitVal

\* The value of a string of decimal digits (0 for the empty string).
RECURSIVE DigitsVal(_)
DigitsVal(s) ==
    IF s = <<>> THEN 0
    ELSE 10 * DigitsVal(SubSeq(s, 1, Len(s) - 1)) + DigitVal[s[Len(s)]]

\* The decimal digits of a natural number.
RECURSIVE NatToStr(_)
NatToStr(n) ==
    LET d == CHOOSE c \in DOMAIN DigitVal : DigitVal[c] = n % 10 IN
    IF n < 10 THEN <<d>> ELSE Append(NatToStr(n \div 10), d)

\* The parse of one string by pandas' numeric converter (used by read_csv's
\* type inference and by pd.to_numeric): surrounding whitespace is skipped,
\* then digits, optionally a point and more digits; anything else fails.
ParseDecimal(s) ==
    LET t == strip(s)
        p == split1(t, ".")
        whole == p[1]
        frac == IF Len(p) = 2 THEN p[2] ELSE <<>>
    IN  IF IsDigits(whole) /\ IsDigits(frac) /\ Len(whole) + Len(frac) > 0
        THEN Num(DigitsVal(whole \o frac), Len(frac))
        ELSE NaN

\* to_numeric accepting whole numbers only.
to_numeric_int(x) ==
    LET v == IF IsStr(x) THEN ParseDecimal(x.s) ELSE x IN
    IF v.k = "num" /\ v.e = 0 THEN v ELSE NaN

\* pd.to_numeric(x, errors="coerce") on one cell.
to_numeric(x) ==
    IF IsStr(x) THEN ParseDecimal(x.s)
    ELSE IF x.k = "num" THEN x
    ELSE NaN

---------------------------------------------------------------------------
(* Dates *)

MonthNames ==
    <<<<"J", "a", "n", "u", "a", "r", "y">>,
      <<"F", "e", "b", "r", "u", "a", "r", "y">>,
      <<"M", "a", "r", "c", "h">>,
      <<"A", "p", "r", "i", "l">>,
      <<"M", "a", "y">>,
      <<"J", "u", "n", "e">>,
      <<"J", "u", "l", "y">>,
      <<"A", "u", "g", "u", "s", "t">>,
      <<"S", "e", "p", "t", "e", "m", "b", "e", "r">>,
      <<"O", "c", "t", "o", "b", "e", "r">>,
      <<"N", "o", "v", "e", "m", "b", "e", "r">>,
      <<"D", "e", "c", "e", "m", "b", "e", "r">>>>

MonthOf(w) ==
    IF \E i \in 1..Len(MonthNames) : MonthNames[i] = w
    THEN CHOOSE i \in 1..Len(MonthNames) : MonthNames[i] = w
    ELSE 0

DaysIn(y, mo) ==
    IF mo = 2
    THEN (IF y % 4 = 0 /\ (y % 100 # 0 \/ y % 400 = 0) THEN 29 ELSE 28)
    ELSE IF mo \in {4, 6, 9, 11} THEN 30 ELSE 31

\* The parse of a date written as in the dataset, "March 5, 2019".
ParseDate(s) ==
    LET t == strip(s)
        a == split1(t, " ")
        mo == MonthOf(a[1])
        b == IF Len(a) = 2 THEN split1(strip(a[2]), ",") ELSE <<>>
        dd == IF Len(b) = 2 THEN b[1] ELSE <<>>
        yy == IF Len(b) = 2 THEN strip(b[2]) ELSE <<>>
    IN  IF /\ mo # 0
           /\ Len(dd) \in {1, 2} /\ IsDigits(dd)
           /\ Len(yy) = 4 /\ IsDigits(yy)
           /\ DigitsVal(dd) \in 1..DaysIn(DigitsVal(yy), mo)
        THEN Datetime(DigitsVal(yy), mo, DigitsVal(dd))
        ELSE NaN

\* to_datetime coercing everything that is not text to NaT.
to_datetime_text_only(x) == IF IsStr(x) THEN ParseDate(x.s) ELSE NaN

\* pd.to_datetime(x, errors="coerce") on one cell: a datetime stays, text is
\* parsed, a number counts nanoseconds from 1970-01-01, the rest is NaT.
to_datetime(x) ==
    IF x.k = "datetime" THEN x
    ELSE IF IsStr(x) THEN ParseDate(x.s)
    ELSE IF x.k = "num" THEN Datetime(1970, 1, 1)
    ELSE NaN

\* x.dt.year.astype("Int64") on one cell of a datetime column.
dt_year(x) == IF x.k = "datetime" THEN Num(x.y, 0) ELSE NaN

---------------------------------------------------------------------------
(* Row-level functions of the script *)

\* get_first_country without the isna test, on str(x).
get_first_country_str(x) ==
    IF isna(x) THEN Str(<<"n", "a", "n">>)
    ELSE Str(strip(split_first(x.s, ",")))

\* def get_first_country(x)
get_first_country(x) ==
    IF isna(x) THEN NaN
    ELSE Str(strip(split_first(x.s, ",")))

\* def get_main_genre(x)
get_main_genre(x) ==
    IF isna(x) THEN NaN
    ELSE Str(strip(split_first(x.s, ",")))

\* The Mature list without its last entry.
MatureRatings_short == {Str(<<"T", "V", "-", "M", "A">>), Str(<<"R">>)}

MatureRatings == {Str(<<"T", "V", "-", "M", "A">>), Str(<<"R">>), Str(<<"N", "C", "-", "1", "7">>)}

TeenRatings == {Str(<<"T", "V", "-", "1", "4">>), Str(<<"P", "G", "-", "1", "3">>)}

\* def simplify_rating(r)
simplify_rating(r) ==
    IF r \in MatureRatings THEN "Mature"
    ELSE IF r \in TeenRatings THEN "Teen"
    ELSE "Family/Kids"

---------------------------------------------------------------------------
(* Bounds and constants *)

\* n of df_full.sample(n=3000, ...), scaled down to the model's tables.
SAMPLE_N == 2

\* random_state of df_full.sample(..., random_state=42).
SEED == 42

\* The longest input file, in rows.
MaxRows == 3

\* The number of times the script is run.
MaxRuns == 2

\* The ambient random states a process may start with are 0..MaxEntropy.
MaxEntropy == 1

---------------------------------------------------------------------------
(* Files and tables *)

Cols == {"date_added", "duration", "country", "listed_in", "rating",
         "release_year"}

FileRow(date_added, duration, country, listed_in, rating, release_year) ==
    [date_added |-> date_added, duration |-> duration, country |-> country,
     listed_in |-> listed_in, rating |-> rating,
     release_year |-> release_year]

\* Lines of data/netflix_titles.csv an input file is made of.
RowPool ==
    { FileRow(<<"M", "a", "r", "c", "h", " ", "5", ",", " ", "2", "0", "1", "9">>,
              <<"9", "0", " ", "m", "i", "n">>,
              <<"I", "n", "d", "i", "a", " ", ",", " ", "U", "K">>,
              <<"D", "r", "a", "m", "a", "s", ",", " ", "K", "i", "d", "s">>,
              <<"T", "V", "-", "M", "A">>,
              <<"2", "0", "1", "9">>),
      FileRow(<<" ", "M", "a", "y", " ", "1", ",", " ", "2", "0", "2", "1">>,
              <<"1", " ", "S", "e", "a", "s", "o", "n">>,
              <<>>,
              <<" ", "D", "r", "a", "m", "a", "s", " ">>,
              <<"T", "V", "-", "1", "4">>,
              <<"2", "0", "2", "1">>),
      FileRow(<<"s", "o", "o", "n">>,
              <<"x", " ", "m", "i", "n">>,
              <<"U", "K">>,
              <<>>,
              <<>>,
              <<"1", "9", "9", "9">>),
      FileRow(<<>>,
              <<>>,
              <<>>,
              <<>>,
              <<>>,
              <<"1", "9", "9", "9">>),
      FileRow(<<"J", "u", "n", "e", " ", "3", "1", ",", " ", "2", "0", "2", "0">>,
              <<"9", "0">>,
              <<"U", "K">>,
              <<"K", "i", "d", "s">>,
              <<"T", "V", "-", "Y">>,
              <<"2", "0", "1", "9">>) }

RECURSIVE SeqsUpTo(_, _)
SeqsUpTo(S, n) ==
    IF n = 0 THEN {<<>>}
    ELSE LET shorter == SeqsUpTo(S, n - 1) IN
         shorter \cup {Append(q, x) : q \in {r \in shorter : Len(r) = n - 1},
                                      x \in S}

NoFile == [exists |-> FALSE, rows |-> <<>>]

File(rows) == [exists |-> TRUE, rows |-> rows]

InputFiles == {NoFile} \cup {File(rows) : rows \in SeqsUpTo(RowPool, MaxRows)}

\* read_csv's type inference: a column whose non-empty fields all parse as
\* numbers is numeric; an empty field is NaN.
NumericColumn(rows, c) ==
    \A i \in 1..Len(rows) : rows[i][c] = <<>> \/ ParseDecimal(rows[i][c]) # NaN

\* pd.read_csv(path) on the file's rows.
read_csv(rows) ==
    [i \in 1..Len(rows) |->
        [c \in DOMAIN rows[i] |->
            IF rows[i][c] = <<>> THEN NaN
            ELSE IF NumericColumn(rows, c) THEN ParseDecimal(rows[i][c])
            ELSE Str(rows[i][c])]]

\* A float as to_csv writes it: at least one digit after the point.
FormatFloat(x) ==
    LET ds == NatToStr(x.m)
        pad == [i \in 1..(x.e + 1 - Len(ds)) |-> "0"]
        all == IF Len(ds) <= x.e THEN pad \o ds ELSE ds
    IN  IF x.e = 0 THEN ds \o <<".", "0">>
        ELSE SubSeq(all, 1, Len(all) - x.e) \o <<".">>
             \o SubSeq(all, Len(all) - x.e + 1, Len(all))

\* A numeric column holds integers only when no cell is missing or fractional.
IntColumn(t, c) == \A i \in 1..Len(t) : t[i][c].k = "num" /\ t[i][c].e = 0

\* DataFrame.to_csv(path, index=False): the rows written.
to_csv(t) ==
    [i \in 1..Len(t) |->
        [c \in DOMAIN t[i] |->
            LET x == t[i][c] IN
            IF IsStr(x) THEN x.s
            ELSE IF x.k = "num"
                 THEN (IF IntColumn(t, c) THEN NatToStr(x.m) ELSE FormatFloat(x))
            ELSE <<>>]]

\* df[c] = values: t with column c set, row by row.
SetColumn(t, c, values) ==
    [i \in 1..Len(t) |->
        [k \in DOMAIN t[i] \cup {c} |-> IF k = c THEN values[i] ELSE t[i][k]]]


HasColumn(t, c) == t # <<>> /\ c \in DOMAIN t[1]

---------------------------------------------------------------------------
(* The Sampler's random source *)

\* One step of the generator (a linear congruential stand-in for numpy's
\* Mersenne Twister: what matters is that the draws are a function of the
\* state alone).
NextRandom(s) == (5 * s + 3) % 17

\* np.random.RandomState(seed): a generator of its own, seeded.
RandomState(seed) == seed % 17

\* Swap with the second assignment lost.
Swap_overwrite(p, i, j) == [p EXCEPT ![i] = p[j]]

Swap(p, i, j) == [p EXCEPT ![i] = p[j], ![j] = p[i]]

\* RandomState.shuffle: for i = n-1 down to 1, swap x[i] with x[j], j drawn
\* from 0..i.  Positions are 0-based as in numpy; p is 1-based.
RECURSIVE Shuffle(_, _, _)
Shuffle(p, i, s) ==
    IF i < 1 THEN p
    ELSE LET s2 == NextRandom(s)
             j == s2 % (i + 1)
         IN  Shuffle(Swap(p, i + 1, j + 1), i - 1, s2)

\* RandomState.choice(N, size=n, replace=False): permutation(N)[:n].
choice(N, n, s) ==
    SubSeq(Shuffle([i \in 1..N |-> i - 1], N - 1, s), 1, n)

\* sample() drawing from the process's ambient generator.
sample_random_state_ambient == global_rng

\* The generator sample() draws from: random_state=42 makes a new one.
sample_random_state == RandomState(SEED)

\* DataFrame.take(locs)
take(t, ls) == [i \in 1..Len(ls) |-> t[ls[i] + 1]]

\* The positions df_full.sample(n=SAMPLE_N, random_state=SEED) selects.
sample_locs(t) == choice(Len(t), SAMPLE_N, sample_random_state)

---------------------------------------------------------------------------
(* The Cleaner's steps, each on a whole table.  A step yields the table it
   leaves behind and the exception it raised, or "none". *)

Done(t) == [t |-> t, err |-> "none"]

Raised(t, e) == [t |-> t, err |-> e]

\* An object column: one that read_csv found text in.  sample() and copy()
\* keep a column's type, so it is read off the table as loaded.
ObjectColumn(t, c) == \E i \in 1..Len(t) : IsStr(t[i][c])

\* Series.str.strip() on one cell
str_strip(x) == IF IsStr(x) THEN Str(strip(x.s)) ELSE x

\* 3.1: for col in str_cols: df[col] = df[col].str.strip()
StripStep(t) ==
    Done([i \in 1..Len(t) |-> [c \in DOMAIN t[i] |-> str_strip(t[i][c])]])

\* 3.2: date_added parsed, year_added extracted
DateStep(t) ==
    LET parsed == SetColumn(t, "date_added",
                     [i \in 1..Len(t) |-> to_datetime(t[i]["date_added"])])
    IN  Done(SetColumn(parsed, "year_added",
                [i \in 1..Len(t) |-> dt_year(parsed[i]["date_added"])]))

\* Series.str.split(" ", n=1) on one cell: the parts, or none for NaN.
str_split(x) == IF IsStr(x) THEN split1(x.s, " ") ELSE <<>>

\* The number of columns of str.split(..., expand=True): the most parts any
\* row has, a NaN row counting for one.
ExpandWidth(t) ==
    IF \E i \in 1..Len(t) : Len(str_split(t[i]["duration"])) = 2 THEN 2
    ELSE 1

\* duration_split[j] for one row: part j, or NaN where the row has none.
SplitPart(r, j) ==
    LET parts == str_split(r["duration"]) IN
    IF Len(parts) >= j THEN Str(parts[j]) ELSE NaN

\* 3.3: duration split into duration_int and duration_type.  The .str
\* accessor needs an object column (object: whether duration is one);
\* duration_split[1] needs a second column.
DurationStep(t, object) ==
    IF ~object THEN Raised(t, "AttributeError")
    ELSE LET withInt == SetColumn(t, "duration_int",
                          [i \in 1..Len(t) |-> to_numeric(SplitPart(t[i], 1))])
         IN  IF ExpandWidth(t) < 2 THEN Raised(withInt, "KeyError")
             ELSE Done(SetColumn(withInt, "duration_type",
                          [i \in 1..Len(t) |-> SplitPart(t[i], 2)]))

\* x.split(",") needs a str: any other value that is not NaN raises.
Splittable(t, c) == \A i \in 1..Len(t) : isna(t[i][c]) \/ IsStr(t[i][c])

\* 3.4: df["country_primary"] = df["country"].apply(get_first_country)
CountryStep(t) ==
    IF ~Splittable(t, "country") THEN Raised(t, "AttributeError")
    ELSE Done(SetColumn(t, "country_primary",
                 [i \in 1..Len(t) |-> get_first_country(t[i]["country"])]))

\* 3.5: df["main_genre"] = df["listed_in"].apply(get_main_genre)
GenreStep(t) ==
    IF ~Splittable(t, "listed_in") THEN Raised(t, "AttributeError")
    ELSE Done(SetColumn(t, "main_genre",
                 [i \in 1..Len(t) |-> get_main_genre(t[i]["listed_in"])]))

\* df = df_subset, without the copy: the same object.
copy_alias(ref) == ref

\* df.copy(): a new object
copy(ref) == "obj_df"

---------------------------------------------------------------------------
(* The Chart builder, as far as it computes on rows *)

\* df[mask]: the rows of t whose mask is TRUE, in order.
SelectRows(t, mask) ==
    LET F[i \in 0..Len(t)] ==
            IF i = 0 THEN <<>>
            ELSE IF mask[i] THEN Append(F[i - 1], t[i]) ELSE F[i - 1]
    IN  F[Len(t)]

\* 4.1: df_modern = df[df["release_year"] >= 2004]
df_modern(t) ==
    SelectRows(t, [i \in 1..Len(t) |->
                      /\ t[i]["release_year"].k = "num"
                      /\ t[i]["release_year"].m >= 2004 * 10 ^ t[i]["release_year"].e])

\* 4.3: df_genre, the rows with a main genre and a rating, with rating_group
df_genre(t) ==
    LET rows == SelectRows(t, [i \in 1..Len(t) |->
                                  /\ ~isna(t[i]["main_genre"])
                                  /\ ~isna(t[i]["rating"])])
    IN  SetColumn(rows, "rating_group",
                  [i \in 1..Len(rows) |-> simplify_rating(rows[i]["rating"])])

\* Section 4: int(df_modern["release_year"].max()) needs a row in df_modern;
\* comparing a text column with 2004 raises.
ChartStep(t) ==
    IF ObjectColumn(t, "release_year") THEN Raised(<<>>, "TypeError")
    ELSE IF df_modern(t) = <<>> THEN Raised(<<>>, "ValueError")
    ELSE Done(df_genre(t))

---------------------------------------------------------------------------
(* The script *)

Stages == <<"Loader", "Sampler", "Cleaner", "Chart builder">>

\* An exception caught and passed over: the script goes on to its end.
Raise_swallowed(e) == err' = e /\ pc' = "main"

\* An exception nothing catches ends the script.
Raise(e) == err' = e /\ pc' = "exit"

NoObjects == [o \in {"obj_full", "obj_subset", "obj_df"} |-> <<>>]

NoPrev == [ran |-> FALSE, sampled |-> FALSE, full |-> <<>>, subset |-> <<>>,
           file |-> NoFile, rng |-> 0]

Init ==
    /\ pc = "load"
    /\ input_file \in InputFiles
    /\ subset_file \in {NoFile, File(<<>>)}
    /\ heap = NoObjects
    /\ df_full = "unbound" /\ df_subset = "unbound" /\ df = "unbound"
    /\ locs = <<>>
    /\ global_rng \in 0..MaxEntropy
    /\ err = "none"
    /\ trace = <<>>
    /\ closing = FALSE
    /\ run = 1
    /\ prev = NoPrev
    /\ charts = <<>>
    /\ fn = "none" /\ fn_in = NaN /\ fn_out = NaN

\* 1. df_full = pd.read_csv("data/netflix_titles.csv")
Load ==
    /\ pc = "load"
    /\ IF input_file.exists
       THEN /\ heap' = [heap EXCEPT !["obj_full"] = read_csv(input_file.rows)]
            /\ df_full' = "obj_full"
            /\ trace' = Append(trace, "Loader")
            /\ pc' = "sample"
            /\ err' = err
       ELSE /\ Raise("FileNotFoundError")
            /\ UNCHANGED <<heap, df_full, trace>>
    /\ UNCHANGED <<input_file, subset_file, df_subset, df, locs, global_rng,
                   closing, run, prev, charts, fnVars>>

Min(a, b) == IF a < b THEN a ELSE b

\* sample() clamping n to the rows there are, instead of raising.
Sample_clamp ==
    /\ pc = "sample"
    /\ locs' = choice(Len(heap[df_full]), Min(SAMPLE_N, Len(heap[df_full])),
                      sample_random_state)
    /\ heap' = [heap EXCEPT !["obj_subset"] = take(heap[df_full], locs')]
    /\ df_subset' = "obj_subset"
    /\ pc' = "to_csv"
    /\ UNCHANGED <<input_file, subset_file, df_full, df, global_rng, err,
                   trace, closing, run, prev, charts, fnVars>>

\* 2. df_subset = df_full.sample(n=3000, random_state=42): more rows asked
\* for than the table has raises ValueError.
Sample ==
    /\ pc = "sample"
    /\ IF Len(heap[df_full]) >= SAMPLE_N
       THEN /\ locs' = sample_locs(heap[df_full])
            /\ heap' = [heap EXCEPT !["obj_subset"] = take(heap[df_full], locs')]
            /\ df_subset' = "obj_subset"
            /\ pc' = "to_csv"
            /\ err' = err
       ELSE /\ Raise("ValueError")
            /\ UNCHANGED <<heap, df_subset, locs>>
    /\ UNCHANGED <<input_file, subset_file, df_full, df, global_rng, trace,
                   closing, run, prev, charts, fnVars>>

\* df_subset.to_csv("data/netflix_titles_subset_3000.csv", index=False)
WriteSubset ==
    /\ pc = "to_csv"
    /\ subset_file' = File(to_csv(heap[df_subset]))
    /\ trace' = Append(trace, "Sampler")
    /\ pc' = "copy"
    /\ UNCHANGED <<input_file, heap, df_full, df_subset, df, locs, global_rng,
                   err, closing, run, prev, charts, fnVars>>

\* 3. df = df_subset.copy()
Copy ==
    /\ pc = "copy"
    /\ df' = copy(df_subset)
    /\ heap' = [heap EXCEPT ![df'] = heap[df_subset]]
    /\ pc' = "strip"
    /\ UNCHANGED <<input_file, subset_file, df_full, df_subset, locs,
                   global_rng, err, trace, closing, run, prev, charts, fnVars>>

\* One step of the Cleaner on the object df names.
CleanerStep(here, step, next, last) ==
    /\ pc = here
    /\ heap' = [heap EXCEPT ![df] = step.t]
    /\ IF step.err = "none"
       THEN /\ pc' = next
            /\ err' = err
            /\ trace' = IF last THEN Append(trace, "Cleaner") ELSE trace
       ELSE /\ Raise(step.err)
            /\ trace' = trace
    /\ UNCHANGED <<input_file, subset_file, df_full, df_subset, df, locs,
                   global_rng, closing, run, prev, charts, fnVars>>

Strip == CleanerStep("strip", StripStep(heap[df]), "dates", FALSE)

Dates == CleanerStep("dates", DateStep(heap[df]), "duration", FALSE)

Duration ==
    CleanerStep("duration",
                DurationStep(heap[df], ObjectColumn(heap[df_full], "duration")),
                "country", FALSE)

Country == CleanerStep("country", CountryStep(heap[df]), "genre", FALSE)

Genre == CleanerStep("genre", GenreStep(heap[df]), "charts", TRUE)

\* 4. the charts
Charts ==
    /\ pc = "charts"
    /\ LET step == ChartStep(heap[df]) IN
       IF step.err = "none"
       THEN /\ charts' = step.t
            /\ trace' = Append(trace, "Chart builder")
            /\ pc' = "main"
            /\ err' = err
       ELSE /\ Raise(step.err)
            /\ UNCHANGED <<charts, trace>>
    /\ UNCHANGED <<input_file, subset_file, heap, df_full, df_subset, df,
                   locs, global_rng, closing, run, prev, fnVars>>

\* if __name__ == "__main__": the closing message
Main ==
    /\ pc = "main"
    /\ closing' = TRUE
    /\ pc' = "exit"
    /\ UNCHANGED <<input_file, subset_file, heap, df_full, df_subset, df,
                   locs, global_rng, err, trace, charts, run, prev, fnVars>>

\* The script is run again, in a new process: the files stay, the memory and
\* the ambient random state are new.
Rerun ==
    /\ pc = "exit"
    /\ run < MaxRuns
    /\ run' = run + 1
    /\ prev' = [ran |-> TRUE,
                sampled |-> df_subset # "unbound",
                full |-> heap["obj_full"],
                subset |-> heap["obj_subset"],
                file |-> subset_file,
                rng |-> global_rng]
    /\ global_rng' \in 0..MaxEntropy
    /\ pc' = "load"
    /\ heap' = NoObjects
    /\ df_full' = "unbound" /\ df_subset' = "unbound" /\ df' = "unbound"
    /\ locs' = <<>>
    /\ err' = "none"
    /\ trace' = <<>>
    /\ closing' = FALSE
    /\ charts' = <<>>
    /\ UNCHANGED <<input_file, subset_file, fnVars>>

Next ==
    \/ Load \/ Sample \/ WriteSubset \/ Copy
    \/ Strip \/ Dates \/ Duration \/ Country \/ Genre
    \/ Charts \/ Main \/ Rerun

Spec == Init /\ [][Next]_vars

---------------------------------------------------------------------------
(* The functions of the script called on their own, on every input up to a
   length: simplify_rating on one rating, the duration split on one column,
   the whole Cleaner on one table and then on its own output. *)

\* The longest rating tried, in characters.
MaxRatingLen == 3

\* The longest duration tried, in characters.
MaxDurLen == 4

RatingAlphabet == {"R", "G", "P", "T", "V", "-", " "}

DurAlphabet == {"1", "0", ".", " ", "\t", "m"}

KnownRatings ==
    { <<"T", "V", "-", "M", "A">>,
      <<"R">>,
      <<"N", "C", "-", "1", "7">>,
      <<"T", "V", "-", "1", "4">>,
      <<"P", "G", "-", "1", "3">>,
      <<"T", "V", "-", "Y">>,
      <<"T", "V", "-", "P", "G">>,
      <<"N", "R">>,
      <<" ", "T", "V", "-", "M", "A">>,
      <<"t", "v", "-", "m", "a">> }

RatingInputs ==
    {NaN} \cup {Str(r) : r \in KnownRatings \cup SeqsUpTo(RatingAlphabet, MaxRatingLen)}

\* The other row of a two-row duration column.
Companions == { <<"2", " ", "S", "e", "a", "s", "o", "n", "s">>, <<>>, <<"m", "i", "n">> }

DurationColumns ==
    LET one(d) == [duration |-> d] IN
    {<<one(d)>> : d \in SeqsUpTo(DurAlphabet, MaxDurLen)}
    \cup {<<one(d), one(c)>> : d \in SeqsUpTo(DurAlphabet, MaxDurLen),
                               c \in Companions}

CleanerInputs == SeqsUpTo(RowPool, MaxRows) \ {<<>>}

\* Lines 65 to 76 on the duration column alone.
CleanDuration(t) ==
    DurationStep(StripStep(t).t, ObjectColumn(t, "duration"))

\* Section 3 after the copy, lines 65 to 92: each step on what the step
\* before left, up to the first that raises.
Cleaner(t) ==
    LET s1 == StripStep(t)
        s2 == IF s1.err = "none" THEN DateStep(s1.t) ELSE s1
        s3 == IF s2.err = "none"
              THEN DurationStep(s2.t, ObjectColumn(t, "duration"))
              ELSE s2
        s4 == IF s3.err = "none" THEN CountryStep(s3.t) ELSE s3
    IN  IF s4.err = "none" THEN GenreStep(s4.t) ELSE s4

FnInit ==
    /\ pc = "fn_call"
    /\ \/ fn = "simplify_rating" /\ fn_in \in RatingInputs
       \/ fn = "duration_split" /\ fn_in \in DurationColumns
       \/ fn = "cleaner" /\ fn_in \in CleanerInputs
    /\ fn_out = NaN
    /\ input_file = NoFile /\ subset_file = NoFile /\ heap = NoObjects
    /\ df_full = "unbound" /\ df_subset = "unbound" /\ df = "unbound"
    /\ locs = <<>> /\ global_rng = 0 /\ err = "none" /\ trace = <<>>
    /\ closing = FALSE /\ run = 1 /\ prev = NoPrev /\ charts = <<>>

CallSimplifyRating ==
    /\ pc = "fn_call" /\ fn = "simplify_rating"
    /\ fn_out' = simplify_rating(fn_in)
    /\ pc' = "fn_return"
    /\ UNCHANGED <<fn, fn_in, pipeVars>>

CallDurationSplit ==
    /\ pc = "fn_call" /\ fn = "duration_split"
    /\ fn_out' = CleanDuration(read_csv(fn_in))
    /\ pc' = "fn_return"
    /\ UNCHANGED <<fn, fn_in, pipeVars>>

CallCleaner ==
    /\ pc = "fn_call" /\ fn = "cleaner"
    /\ fn_out' = Cleaner(read_csv(fn_in))
    /\ pc' = "fn_return"
    /\ UNCHANGED <<fn, fn_in, pipeVars>>

\* The Cleaner applied to its own output.
CallCleanerAgain ==
    /\ pc = "fn_return" /\ fn = "cleaner" /\ fn_out.err = "none"
    /\ fn_in' = fn_out.t
    /\ fn_out' = Cleaner(fn_out.t)
    /\ pc' = "fn_again"
    /\ UNCHANGED <<fn, pipeVars>>

FnNext ==
    \/ CallSimplifyRating \/ CallDurationSplit
    \/ CallCleaner \/ CallCleanerAgain

SpecFn == FnInit /\ [][FnNext]_vars

---------------------------------------------------------------------------
(* Properties *)

InTrace(stage) == \E i \in 1..Len(trace) : trace[i] = stage

IsPrefix(a, b) == Len(a) <= Len(b) /\ SubSeq(b, 1, Len(a)) = a

Sampled == df_subset # "unbound"

CleanerDone == InTrace("Cleaner")

TooFewRows == input_file.exists /\ Len(input_file.rows) < SAMPLE_N

\* C1: Subset validity.  Whenever the full table has at least SAMPLE_N rows,
\* the sampled table has exactly SAMPLE_N rows, each sampled row is the row
\* of the full table at the position drawn for it, and no position of the
\* full table is drawn twice.
C1_SubsetValidity ==
    (input_file.exists /\ Len(input_file.rows) >= SAMPLE_N
        /\ pc \notin {"load", "sample"})
    => /\ Sampled
       /\ Len(heap["obj_subset"]) = SAMPLE_N
       /\ Len(locs) = SAMPLE_N
       /\ \A i \in 1..Len(locs) :
            /\ locs[i] \in 0..(Len(heap[df_full]) - 1)
            /\ \A c \in Cols :
                 heap["obj_subset"][i][c] = heap[df_full][locs[i] + 1][c]
       /\ \A i, j \in 1..Len(locs) : i # j => locs[i] # locs[j]

\* A sample drawn from a table with more rows than the sample, and not its
\* first rows.
C1_Witness ==
    /\ pc = "to_csv"
    /\ Len(heap["obj_full"]) > SAMPLE_N
    /\ locs # [i \in 1..SAMPLE_N |-> i - 1]

\* C2: Insufficient rows.  If the full table has fewer rows than SAMPLE_N,
\* sampling ends the run with an error: after the Sampler's step the script
\* has exited with ValueError, only the Loader has completed, there is no
\* sampled or cleaned table, no chart and no closing message, and no step of
\* such a run changes the subset file.
C2_InsufficientRows ==
    /\ [](TooFewRows /\ pc \notin {"load", "sample"}
            => /\ pc = "exit" /\ err = "ValueError"
               /\ trace = <<"Loader">>
               /\ ~Sampled /\ df = "unbound" /\ charts = <<>> /\ ~closing)
    /\ [][TooFewRows => subset_file' = subset_file]_vars

\* A run ended by the Sampler, beside a subset file it did not write.
C2_Witness ==
    /\ TooFewRows /\ pc = "exit" /\ err = "ValueError"
    /\ Len(heap["obj_full"]) = SAMPLE_N - 1
    /\ subset_file.exists

\* C3: Sampler determinism.  Two runs on the same full table select the same
\* rows in the same order and write the same subset file, whatever the
\* ambient random state of each process.
C3_SamplerDeterminism ==
    (prev.sampled /\ Sampled /\ heap["obj_full"] = prev.full)
    => /\ heap["obj_subset"] = prev.subset
       /\ (InTrace("Sampler") => subset_file = prev.file)

\* A second run that has written its subset, started with another ambient
\* random state than the first.
C3_Witness ==
    /\ prev.sampled /\ InTrace("Sampler")
    /\ prev.rng # global_rng
    /\ Len(heap["obj_full"]) > SAMPLE_N

RatingCall == fn = "simplify_rating" /\ pc = "fn_return"

\* C4: Rating-group totality.  For every rating, NaN included,
\* simplify_rating returns one of the three groups: "Mature" exactly for
\* TV-MA, R and NC-17, "Teen" exactly for TV-14 and PG-13, and
\* "Family/Kids" for everything else.
C4_RatingGroupTotal ==
    RatingCall
    => /\ fn_out \in {"Mature", "Teen", "Family/Kids"}
       /\ fn_out = "Mature"
            <=> fn_in \in {Str(<<"T", "V", "-", "M", "A">>), Str(<<"R">>), Str(<<"N", "C", "-", "1", "7">>)}
       /\ fn_out = "Teen" <=> fn_in \in {Str(<<"T", "V", "-", "1", "4">>), Str(<<"P", "G", "-", "1", "3">>)}
       /\ fn_in \in {NaN, Str(<<"T", "V", "-", "Y">>)} => fn_out = "Family/Kids"

\* simplify_rating has returned for NC-17.
C4_Witness == RatingCall /\ fn_in = Str(<<"N", "C", "-", "1", "7">>) /\ fn_out = "Mature"

\* C5: Null-safety.  In every row of the table being cleaned, once the
\* derived column is there: a NaN country gives a NaN country_primary, a NaN
\* listed_in a NaN main_genre, a NaN duration a NaN duration_int and
\* duration_type, a NaN date_added a NaN year_added.
C5_NullSafety ==
    df # "unbound"
    => \A i \in 1..Len(heap[df]) :
         LET raw == heap["obj_subset"][i]
             r == heap[df][i]
             safe(from, to) ==
                 (to \in DOMAIN r /\ isna(raw[from])) => isna(r[to])
         IN  /\ safe("country", "country_primary")
             /\ safe("listed_in", "main_genre")
             /\ safe("duration", "duration_int")
             /\ safe("duration", "duration_type")
             /\ safe("date_added", "year_added")

\* A cleaned table with a row whose four source fields are all NaN.
C5_Witness ==
    /\ CleanerDone
    /\ \E i \in 1..Len(heap[df]) :
         /\ isna(heap["obj_subset"][i]["country"])
         /\ isna(heap["obj_subset"][i]["listed_in"])
         /\ isna(heap["obj_subset"][i]["duration"])
         /\ isna(heap["obj_subset"][i]["date_added"])
         /\ isna(heap[df][i]["country_primary"])

DurationCall == fn = "duration_split" /\ pc = "fn_return"

\* The trimmed text of the duration in row i of the column, <<>> for none.
Trimmed(i) == strip(fn_in[i]["duration"])

\* s cut at the first of its characters that is in seps: its one or two parts.
CutAtFirst(s, seps) ==
    IF \E i \in 1..Len(s) : s[i] \in seps
    THEN LET i == CHOOSE k \in 1..Len(s) :
                    s[k] \in seps /\ \A j \in 1..(k - 1) : s[j] \notin seps
         IN  <<SubSeq(s, 1, i - 1), SubSeq(s, i + 1, Len(s))>>
    ELSE <<s>>

\* Part 2 of the parts, verbatim, or NaN.
SecondPart(parts) == IF Len(parts) = 2 THEN Str(parts[2]) ELSE NaN

\* Part 1 as an integer, or NaN: a number with no fraction counts as one.
AsInteger(part) ==
    LET v == ParseDecimal(part) IN
    IF v # NaN /\ v.e = 0 THEN v ELSE NaN

\* C6 as the specification states it: in every row the split produces,
\* duration_int is the integer before the first whitespace of the trimmed
\* duration (NaN when it is no integer) and duration_type the text after it
\* (NaN when there is none).
C6_AsStated ==
    (DurationCall /\ fn_out.err = "none")
    => \A i \in 1..Len(fn_in) :
         LET parts == CutAtFirst(Trimmed(i), Whitespace) IN
         /\ fn_out.t[i]["duration_int"] = AsInteger(parts[1])
         /\ fn_out.t[i]["duration_type"] = SecondPart(parts)

\* C6, amended: the trimmed duration is cut at its first space character
\* (a tab does not cut); duration_int is part 1 as a decimal number (1.5
\* for "1.5"), NaN when it is no number; duration_type is part 2 verbatim,
\* NaN when the row has none.  The step completes exactly when some row has
\* a second part; otherwise it raises and there is no duration_type column.
C6_DurationSplit ==
    DurationCall
    => LET cut(i) == CutAtFirst(Trimmed(i), {" "})
           someSecond == \E i \in 1..Len(fn_in) : Len(cut(i)) = 2
       IN  /\ fn_out.err = "none" <=> someSecond
           /\ ~someSecond => ~HasColumn(fn_out.t, "duration_type")
           /\ someSecond =>
                \A i \in 1..Len(fn_in) :
                  /\ fn_out.t[i]["duration_int"] =
                        (IF fn_in[i]["duration"] = <<>> THEN NaN
                         ELSE ParseDecimal(cut(i)[1]))
                  /\ fn_out.t[i]["duration_type"] =
                        (IF fn_in[i]["duration"] = <<>> THEN NaN
                         ELSE SecondPart(cut(i)))

\* A column whose first row is split into a fraction and a unit.
C6_Witness ==
    /\ DurationCall /\ fn_out.err = "none"
    /\ fn_out.t[1]["duration_int"] = Num(1, 1)
    /\ fn_out.t[1]["duration_type"] = Str(<<"m">>)

\* C7 as the specification states it: whatever the sampled rows hold, the
\* Cleaner runs to completion.  Stated for the tables whose rows all have a
\* duration: a run that has started cleaning one does not end before the
\* Cleaner has completed.
C7_CleanerNeverAborts ==
    (/\ df # "unbound" /\ pc = "exit"
     /\ \A i \in 1..Len(heap[df_subset]) :
          ~isna(heap[df_subset][i]["duration"]))
    => CleanerDone

\* C8: The Cleaner never mutates the sampled table.  From the copy on, the
\* object df_subset names holds the rows drawn from the full table, with
\* the raw values and the columns of the input, the subset file holds those
\* rows as written, and df is another object.
C8_SubsetUntouched ==
    df # "unbound"
    => LET drawn == take(heap[df_full], locs) IN
       /\ heap[df_subset] = drawn
       /\ \A i \in 1..Len(heap[df_subset]) : DOMAIN heap[df_subset][i] = Cols
       /\ subset_file = File(to_csv(drawn))
       /\ df # df_subset

\* The Cleaner has completed on a table whose text it changed.
C8_Witness ==
    /\ CleanerDone
    /\ HasColumn(heap[df], "main_genre")
    /\ \E i \in 1..Len(heap[df]) :
         heap[df][i]["listed_in"] # heap[df_subset][i]["listed_in"]

Derived == {"year_added", "duration_int", "duration_type", "country_primary",
            "main_genre"}

RecleanCall == fn = "cleaner" /\ pc = "fn_again"

\* C9: Cleaner idempotence.  The Cleaner applied to its own output
\* completes and leaves every row's year_added, duration_int,
\* duration_type, country_primary and main_genre as they were.
C9_CleanerIdempotent ==
    RecleanCall
    => /\ fn_out.err = "none"
       /\ Len(fn_out.t) = Len(fn_in)
       /\ \A i \in 1..Len(fn_in) :
            \A c \in Derived : fn_out.t[i][c] = fn_in[i][c]

\* The Cleaner has run on its own output, which held a parsed date and a
\* row with no date.
C9_Witness ==
    /\ RecleanCall
    /\ \E i, j \in 1..Len(fn_in) :
         /\ fn_in[i]["date_added"].k = "datetime"
         /\ fn_out.t[i]["year_added"].k = "num"
         /\ isna(fn_in[j]["date_added"])

\* C10: Stage ordering and fatal errors.  The stages complete in the order
\* Loader, Sampler, Cleaner, Chart builder; an error ends the run where it
\* is raised: no closing message, no later stage; an error of the Loader
\* leaves no table and one of the Sampler no subset; the closing message is
\* printed only after all four stages completed without error.
C10_StageOrder ==
    /\ [](/\ IsPrefix(trace, Stages)
          /\ err # "none" => pc = "exit" /\ ~closing
          /\ err = "FileNotFoundError"
               => trace = <<>> /\ df_full = "unbound" /\ ~Sampled
          /\ (err # "none" /\ trace = <<"Loader">>)
               => ~Sampled /\ df = "unbound" /\ charts = <<>>
          /\ closing => trace = Stages /\ err = "none")
    /\ [][err # "none" => (trace' = trace \/ run' # run)]_vars

\* A run the Sampler ended: the Loader alone completed, nothing was printed.
C10_Witness ==
    pc = "exit" /\ err = "ValueError" /\ trace = <<"Loader">> /\ ~closing

=============================================================================
